---- MODULE Spec2Model ----
(***************************************************************************)
(* Model of data_maryland.py: the per-year fetch loop over the ACS county  *)
(* API, the total-failure guard, the concatenation, the per-year           *)
(* aggregate and correlation tables, the overall correlation, the two      *)
(* charts and the failed-years report.                                     *)
(*                                                                         *)
(* A nullable number (a pandas float that may be NaN) is a set: {} is NaN  *)
(* and {v} is the number v.  A DataFrame is a sequence of row records.     *)
(***************************************************************************)
EXTENDS Integers, Sequences, FiniteSets, TLC

VARIABLES
    pc,            \* position of the script: "fetch", "guard", ..., "done", "raised"
    i,             \* index in YEARS of the year the loop handles next
    all_dfs,       \* list of the record sets of the years fetched successfully
    failed_years,  \* list of <<year, message>> of the years whose fetch raised
    final_df,      \* CombinedTable
    state_trend,   \* YearlyAggregate
    corr_by_year,  \* YearlyCorrelation
    overall_corr,  \* overall correlation
    output,        \* what the run has printed and shown, in order
    calls,         \* the years fetch_acs_county_year has been called with, in order
    error,         \* the exception that ended the run, "none" while there is none
    arg_year,      \* Fetcher contract: the year argument
    arg_resp,      \* Fetcher contract: the response of the API
    ret            \* Fetcher contract: what the call produced

vars == <<pc, i, all_dfs, failed_years, final_df, state_trend, corr_by_year,
          overall_corr, output, calls, error, arg_year, arg_resp, ret>>

----------------------------------------------------------------------------
(* Configuration *)

YEARS == <<2012, 2014, 2016, 2018, 2022>>

STATE_FIPS == "24"

VAR_INCOME == "B19013_001E"

VAR_GINI == "B19083_001E"

(* Bound: the number of county rows one response of the run holds at most. *)
MaxRows == 3

(* Bound: the number of rows of a response of the Fetcher taken on its own. *)
MaxFetchRows == 2

----------------------------------------------------------------------------
(* Values *)

NaN == {}

Num(v) == {v}

Val(s) == CHOOSE v \in s : TRUE

(* The numeric strings of the model and the numbers they denote. *)
NumStr == <<"1", "2", "3", "4", "5", "6">>

(* JSON null *)
None == "<None>"

(* The cells a response may hold in a variable column: numeric strings, a   *)
(* non-numeric annotation and JSON null.                                    *)
RawCells == {"1", "2", "N/A", None}

(* pd.to_numeric(cell, errors="coerce") on one cell: the number a numeric   *)
(* string denotes, NaN for everything else.                                 *)
to_numeric(cell) ==
    IF \E n \in DOMAIN NumStr : NumStr[n] = cell
    THEN Num(CHOOSE n \in DOMAIN NumStr : NumStr[n] = cell)
    ELSE NaN

----------------------------------------------------------------------------
(* Responses of the API *)

AllColumns == {"NAME", VAR_INCOME, VAR_GINI, "state", "county"}

CountyName(c) == NumStr[c]

(* A data row of the response for county c with the given variable cells. *)
RawRow(c, inc, gin) ==
    [NAME |-> CountyName(c), B19013_001E |-> inc, B19083_001E |-> gin,
     state |-> STATE_FIPS, county |-> CountyName(c)]

(* Tables of n rows, counties 1..n in order, the cells drawn from cells. *)
RawTables(n, cells) ==
    { [c \in 1..n |-> RawRow(c, f[c][1], f[c][2])] : f \in [1..n -> cells \X cells] }

ErrorResponse(msg) == [kind |-> "error", msg |-> msg, columns |-> {}, rows |-> <<>>]

TableResponse(columns, rows) ==
    [kind |-> "table", msg |-> "", columns |-> columns, rows |-> rows]

(* What requests.get / raise_for_status / r.json() raise with. *)
ErrorMessages == {"500 Server Error"}

(* Every response of the Fetcher contract: an exception before the table is *)
(* built, a table that lacks a requested column, or a full table.           *)
Responses ==
    { ErrorResponse(m) : m \in ErrorMessages }
    \cup { TableResponse(AllColumns \ {VAR_GINI}, <<>>) }
    \cup UNION { { TableResponse(AllColumns, t) : t \in RawTables(n, RawCells) } :
                 n \in 0..MaxFetchRows }

(* The reference values of county c: its income and Gini cells when the API *)
(* reports them.                                                            *)
RefIncome(c) == NumStr[c]

RefGini(c) == NumStr[IF c % 2 = 1 THEN c + 1 ELSE c - 1]

(* The rows the run may receive for county c when the API withholds one of  *)
(* its values: the income annotated as unavailable, or a null Gini.         *)
WithheldRows(c) ==
    { RawRow(c, "N/A", RefGini(c)), RawRow(c, RefIncome(c), None) }

(* The tables of n rows the run is fed: the first m counties reported with  *)
(* their reference values, the others with a value withheld.                *)
FeedTables(n) ==
    UNION { { t \in [1..n -> UNION { WithheldRows(c) : c \in 1..n }
                              \cup { RawRow(c, RefIncome(c), RefGini(c)) : c \in 1..n }] :
                \A c \in 1..n :
                    IF c <= m
                    THEN t[c] = RawRow(c, RefIncome(c), RefGini(c))
                    ELSE t[c] \in WithheldRows(c) } :
            m \in 0..n }

(* The responses the run is fed. *)
Feeds ==
    { ErrorResponse(m) : m \in ErrorMessages }
    \cup { TableResponse(AllColumns \ {VAR_GINI}, <<>>) }
    \cup UNION { { TableResponse(AllColumns, t) : t \in FeedTables(n) } :
                 n \in 0..MaxRows }

----------------------------------------------------------------------------
(* Fetcher *)

Raise(msg) == [ok |-> FALSE, msg |-> msg, df |-> <<>>]

Return(df) == [ok |-> TRUE, msg |-> "", df |-> df]

(* lines 33-35: the year tag and the two numeric columns *)
Convert(year, row) ==
    [NAME |-> row.NAME, state |-> row.state, county |-> row.county,
     year |-> year,
     income |-> to_numeric(row.B19013_001E),
     gini |-> to_numeric(row.B19083_001E)]

(* line 38: df.dropna(subset=["income", "gini"]) *)
dropna_income_only(df) == SelectSeq(df, LAMBDA r : r.income # NaN)

dropna(df) == SelectSeq(df, LAMBDA r : r.income # NaN /\ r.gini # NaN)

fetch_acs_county_year(year, resp) ==
    IF resp.kind = "error" THEN Raise(resp.msg)
    ELSE IF VAR_INCOME \notin resp.columns THEN Raise(VAR_INCOME)
    ELSE IF VAR_GINI \notin resp.columns THEN Raise(VAR_GINI)
    ELSE IF ~({"NAME", "state", "county"} \subseteq resp.columns)
         THEN Raise("not in index")
    ELSE Return(dropna([j \in DOMAIN resp.rows |-> Convert(year, resp.rows[j])]))

----------------------------------------------------------------------------
(* Aggregator *)

RECURSIVE Concat_reversed(_)
Concat_reversed(dfs) ==
    IF dfs = <<>> THEN <<>> ELSE Concat_reversed(Tail(dfs)) \o Head(dfs)

RECURSIVE Concat(_)
(* line 58: pd.concat(all_dfs, ignore_index=True) *)
Concat(dfs) == IF dfs = <<>> THEN <<>> ELSE Head(dfs) \o Concat(Tail(dfs))

RECURSIVE SumSeq(_)
SumSeq(s) == IF s = <<>> THEN 0 ELSE Head(s) + SumSeq(Tail(s))

Column(df, col) ==
    [j \in DOMAIN df |-> IF col = "income" THEN Val(df[j].income) ELSE Val(df[j].gini)]

(* The group keys of groupby("year"), ascending. *)
GroupKeys(df) ==
    SortSeq(
        LET ys == { df[j].year : j \in DOMAIN df }
            f == CHOOSE g \in [1..Cardinality(ys) -> ys] :
                     \A a, b \in 1..Cardinality(ys) : a # b => g[a] # g[b]
        IN  f,
        LAMBDA a, b : a < b)

Group(df, y) == SelectSeq(df, LAMBDA r : r.year = y)

(* mean, as the fraction sum / count *)
Mean(xs) == [num |-> SumSeq(xs), den |-> Len(xs)]

(* median: the middle sorted value, or the average of the two middle ones *)
Median(xs) ==
    LET s == SortSeq(xs, LAMBDA a, b : a < b)
        n == Len(s)
    IN  IF n % 2 = 1
        THEN [num |-> s[(n + 1) \div 2], den |-> 1]
        ELSE [num |-> s[n \div 2] + s[n \div 2 + 1], den |-> 2]

(* ("NAME", "count"): the non-null NAME cells of the group *)
count_off_by_one(g) == Len(g) - 1

count(g) == Len(SelectSeq(g, LAMBDA r : r.NAME # None))

(* lines 61-72 *)
trend_unsorted(df) ==
    LET ks == GroupKeys(df)
    IN  [k \in DOMAIN ks |->
            LET y == ks[Len(ks) + 1 - k]
                g == Group(df, y)
            IN  [year |-> y,
                 avg_income |-> Mean(Column(g, "income")),
                 median_income |-> Median(Column(g, "income")),
                 avg_gini |-> Mean(Column(g, "gini")),
                 median_gini |-> Median(Column(g, "gini")),
                 n_counties |-> count(g)]]

StateTrendOf(df) ==
    LET ks == GroupKeys(df)
    IN  [k \in DOMAIN ks |->
            LET g == Group(df, ks[k])
            IN  [year |-> ks[k],
                 avg_income |-> Mean(Column(g, "income")),
                 median_income |-> Median(Column(g, "income")),
                 avg_gini |-> Mean(Column(g, "gini")),
                 median_gini |-> Median(Column(g, "gini")),
                 n_counties |-> count(g)]]

NaNCorr == [nan |-> TRUE, sign |-> 0, num |-> 0, den |-> 1]

Sign(x) == IF x > 0 THEN 1 ELSE IF x < 0 THEN -1 ELSE 0

(* Series.corr: Pearson's r of the income and gini columns, kept exactly as *)
(* its sign and its square num / den; NaN when there is no row or when the  *)
(* divisor sqrt(var(income) * var(gini)) is zero.                           *)
corr_one_for_single(df) ==
    LET n == Len(df)
        xs == Column(df, "income")
        ys == Column(df, "gini")
        sx == SumSeq(xs)
        sy == SumSeq(ys)
        cov == n * SumSeq([j \in DOMAIN df |-> xs[j] * ys[j]]) - sx * sy
        vx == n * SumSeq([j \in DOMAIN df |-> xs[j] * xs[j]]) - sx * sx
        vy == n * SumSeq([j \in DOMAIN df |-> ys[j] * ys[j]]) - sy * sy
    IN  IF n = 0 THEN NaNCorr
        ELSE IF n = 1 THEN [nan |-> FALSE, sign |-> 1, num |-> 1, den |-> 1]
        ELSE IF vx * vy = 0 THEN NaNCorr
        ELSE [nan |-> FALSE, sign |-> Sign(cov), num |-> cov * cov, den |-> vx * vy]

corr(df) ==
    LET n == Len(df)
        xs == Column(df, "income")
        ys == Column(df, "gini")
        sx == SumSeq(xs)
        sy == SumSeq(ys)
        cov == n * SumSeq([j \in DOMAIN df |-> xs[j] * ys[j]]) - sx * sy
        vx == n * SumSeq([j \in DOMAIN df |-> xs[j] * xs[j]]) - sx * sx
        vy == n * SumSeq([j \in DOMAIN df |-> ys[j] * ys[j]]) - sy * sy
    IN  IF n = 0 THEN NaNCorr
        ELSE IF vx * vy = 0 THEN NaNCorr
        ELSE [nan |-> FALSE, sign |-> Sign(cov), num |-> cov * cov, den |-> vx * vy]

(* lines 78-83, for a table with at least one group *)
CorrByYearOf(df) ==
    LET ks == GroupKeys(df)
    IN  [k \in DOMAIN ks |->
            [year |-> ks[k], corr_income_gini |-> corr(Group(df, ks[k]))]]

----------------------------------------------------------------------------
(* The run *)

Ev(kind, year, data) == [kind |-> kind, year |-> year, data |-> data]

NoResponse == ErrorResponse("")

Init ==
    /\ pc = "fetch"
    /\ i = 1
    /\ all_dfs = <<>>
    /\ failed_years = <<>>
    /\ final_df = <<>>
    /\ state_trend = <<>>
    /\ corr_by_year = <<>>
    /\ overall_corr = NaNCorr
    /\ output = <<>>
    /\ calls = <<>>
    /\ error = "none"
    /\ arg_year = 0
    /\ arg_resp = NoResponse
    /\ ret = Raise("")

(* line 49: all_dfs.append(df_y) *)
RecordSuccess(dfs, df) == Append(dfs, df)

(* line 52: failed_years.append((y, str(e))) *)
RecordFailure_lost(fy, y, msg) == fy

RecordFailure(fy, y, msg) == Append(fy, <<y, msg>>)

(* line 55: not all_dfs *)
NoData_never(dfs) == FALSE

NoData(dfs) == dfs = <<>>

(* lines 46-53: one iteration of the loop over YEARS *)
FetchYear ==
    /\ pc = "fetch"
    /\ i <= Len(YEARS)
    /\ \E resp \in Feeds :
        LET y == YEARS[i]
            r == fetch_acs_county_year(y, resp)
        IN  /\ calls' = Append(calls, y)
            /\ IF r.ok
               THEN /\ all_dfs' = RecordSuccess(all_dfs, r.df)
                    /\ output' = Append(output, Ev("ok", y, Len(r.df)))
                    /\ UNCHANGED failed_years
               ELSE /\ failed_years' = RecordFailure(failed_years, y, r.msg)
                    /\ output' = Append(output, Ev("fail", y, r.msg))
                    /\ UNCHANGED all_dfs
    /\ i' = i + 1
    /\ pc' = IF i = Len(YEARS) THEN "guard" ELSE "fetch"
    /\ UNCHANGED <<final_df, state_trend, corr_by_year, overall_corr, error,
                   arg_year, arg_resp, ret>>

(* lines 55-56: if not all_dfs: raise RuntimeError *)
Guard ==
    /\ pc = "guard"
    /\ IF NoData(all_dfs)
       THEN pc' = "raised" /\ error' = "RuntimeError"
       ELSE pc' = "concat" /\ UNCHANGED error
    /\ UNCHANGED <<i, all_dfs, failed_years, final_df, state_trend, corr_by_year,
                   overall_corr, output, calls, arg_year, arg_resp, ret>>

(* line 58 *)
ConcatStep ==
    /\ pc = "concat"
    /\ final_df' = Concat(all_dfs)
    /\ pc' = "state_trend"
    /\ UNCHANGED <<i, all_dfs, failed_years, state_trend, corr_by_year,
                   overall_corr, output, calls, error, arg_year, arg_resp, ret>>

(* lines 61-75 *)
StateTrendStep ==
    /\ pc = "state_trend"
    /\ state_trend' = StateTrendOf(final_df)
    /\ output' = Append(output, Ev("state_trend", 0, state_trend'))
    /\ pc' = "corr_by_year"
    /\ UNCHANGED <<i, all_dfs, failed_years, final_df, corr_by_year,
                   overall_corr, calls, error, arg_year, arg_resp, ret>>

(* lines 78-86.  With no group, groupby(...).apply(...) returns an empty    *)
(* DataFrame, and DataFrame.reset_index has no parameter `name`: TypeError. *)
CorrByYearStep ==
    /\ pc = "corr_by_year"
    /\ IF final_df = <<>>
       THEN /\ pc' = "raised"
            /\ error' = "TypeError"
            /\ UNCHANGED <<corr_by_year, output>>
       ELSE /\ corr_by_year' = CorrByYearOf(final_df)
            /\ output' = Append(output, Ev("corr_by_year", 0, corr_by_year'))
            /\ pc' = "overall_corr"
            /\ UNCHANGED error
    /\ UNCHANGED <<i, all_dfs, failed_years, final_df, state_trend,
                   overall_corr, calls, arg_year, arg_resp, ret>>

(* lines 89-90 *)
OverallCorrStep ==
    /\ pc = "overall_corr"
    /\ overall_corr' = corr(final_df)
    /\ output' = Append(output, Ev("overall_corr", 0, overall_corr'))
    /\ pc' = "chart_income"
    /\ UNCHANGED <<i, all_dfs, failed_years, final_df, state_trend, corr_by_year,
                   calls, error, arg_year, arg_resp, ret>>

(* lines 93-98 *)
ChartIncome ==
    /\ pc = "chart_income"
    /\ output' = Append(output,
          Ev("chart_income", 0,
             [k \in DOMAIN state_trend |->
                 <<state_trend[k].year, state_trend[k].avg_income>>]))
    /\ pc' = "chart_gini"
    /\ UNCHANGED <<i, all_dfs, failed_years, final_df, state_trend, corr_by_year,
                   overall_corr, calls, error, arg_year, arg_resp, ret>>

(* lines 100-105 *)
ChartGini ==
    /\ pc = "chart_gini"
    /\ output' = Append(output,
          Ev("chart_gini", 0,
             [k \in DOMAIN state_trend |->
                 <<state_trend[k].year, state_trend[k].avg_gini>>]))
    /\ pc' = "failed_report"
    /\ UNCHANGED <<i, all_dfs, failed_years, final_df, state_trend, corr_by_year,
                   overall_corr, calls, error, arg_year, arg_resp, ret>>

(* lines 108-111 *)
FailedListing_always(fy) ==
    <<Ev("failed_header", 0, "")>>
    \o [k \in DOMAIN fy |-> Ev("failed_year", fy[k][1], fy[k][2])]

FailedListing(fy) ==
    IF fy # <<>>
    THEN <<Ev("failed_header", 0, "")>>
         \o [k \in DOMAIN fy |-> Ev("failed_year", fy[k][1], fy[k][2])]
    ELSE <<>>

FailedReport ==
    /\ pc = "failed_report"
    /\ output' = output \o FailedListing(failed_years)
    /\ pc' = "done"
    /\ UNCHANGED <<i, all_dfs, failed_years, final_df, state_trend, corr_by_year,
                   overall_corr, calls, error, arg_year, arg_resp, ret>>

Next ==
    \/ FetchYear
    \/ Guard
    \/ ConcatStep
    \/ StateTrendStep
    \/ CorrByYearStep
    \/ OverallCorrStep
    \/ ChartIncome
    \/ ChartGini
    \/ FailedReport

Spec == Init /\ [][Next]_vars

----------------------------------------------------------------------------
(* The Fetcher on its own: one call on any response of the contract *)

InitFetch ==
    /\ pc = "call"
    /\ i = 1
    /\ all_dfs = <<>>
    /\ failed_years = <<>>
    /\ final_df = <<>>
    /\ state_trend = <<>>
    /\ corr_by_year = <<>>
    /\ overall_corr = NaNCorr
    /\ output = <<>>
    /\ calls = <<>>
    /\ error = "none"
    /\ arg_year \in { YEARS[k] : k \in DOMAIN YEARS }
    /\ arg_resp \in Responses
    /\ ret = Raise("")

FetchCall ==
    /\ pc = "call"
    /\ ret' = fetch_acs_county_year(arg_year, arg_resp)
    /\ calls' = Append(calls, arg_year)
    /\ pc' = "returned"
    /\ UNCHANGED <<i, all_dfs, failed_years, final_df, state_trend, corr_by_year,
                   overall_corr, output, error, arg_year, arg_resp>>

NextFetch == FetchCall

SpecFetch == InitFetch /\ [][NextFetch]_vars

----------------------------------------------------------------------------
(* Properties *)

YearSet == { YEARS[k] : k \in DOMAIN YEARS }

(* The output events of one kind, in order. *)
Events(kind) == SelectSeq(output, LAMBDA e : e.kind = kind)

EventsOf(kind, y) == SelectSeq(output, LAMBDA e : e.kind = kind /\ e.year = y)

FailuresOf(y) == SelectSeq(failed_years, LAMBDA f : f[1] = y)

RowsOf(df, y) == { j \in DOMAIN df : df[j].year = y }

LoopFinished == pc \notin {"fetch", "call", "returned"}

AllFailed == LoopFinished /\ Len(failed_years) = Len(YEARS)

(* The positions of the output where the Aggregator, the Reporter's tables  *)
(* and the Visualizer have written.                                         *)
AggregateKinds ==
    {"state_trend", "corr_by_year", "overall_corr", "chart_income", "chart_gini"}

(* The positions of the failure listing in the output. *)
Listing == { j \in DOMAIN output : output[j].kind \in {"failed_header", "failed_year"} }

(* C1: once the loop over YEARS has finished, every configured year is      *)
(* accounted for exactly once: it has either one [OK] record set in the     *)
(* success list or one entry in the failure list, never both and never      *)
(* neither, and no row of a failed year is in the success list or in        *)
(* CombinedTable.                                                           *)
Thm_C1 ==
    LoopFinished =>
        /\ LET oks == Events("ok")
           IN  /\ Len(all_dfs) = Len(oks)
               /\ \A k \in DOMAIN all_dfs :
                     /\ oks[k].data = Len(all_dfs[k])
                     /\ \A j \in DOMAIN all_dfs[k] : all_dfs[k][j].year = oks[k].year
        /\ Len(all_dfs) + Len(failed_years) = Len(YEARS)
        /\ \A y \in YearSet :
              /\ Len(EventsOf("ok", y)) + Len(FailuresOf(y)) = 1
              /\ Len(FailuresOf(y)) = 1 =>
                    /\ RowsOf(final_df, y) = {}
                    /\ RowsOf(Concat(all_dfs), y) = {}

Wit_C1 ==
    /\ pc = "done"
    /\ Len(all_dfs) = 3
    /\ Len(failed_years) = 2
    /\ \E k \in DOMAIN all_dfs : all_dfs[k] = <<>>
    /\ Len(final_df) >= 2

(* C2: when the fetch of every configured year failed, the run ends at the  *)
(* guard with the RuntimeError: nothing is aggregated, no aggregate or      *)
(* correlation is printed and no chart is drawn.                            *)
Thm_C2 ==
    (AllFailed /\ pc # "guard") =>
        /\ pc = "raised"
        /\ error = "RuntimeError"
        /\ final_df = <<>>
        /\ state_trend = <<>>
        /\ corr_by_year = <<>>
        /\ \A j \in DOMAIN output : output[j].kind = "fail"

Wit_C2 ==
    /\ AllFailed
    /\ pc = "raised"
    /\ Len(output) = Len(YEARS)
    /\ \E j, k \in DOMAIN failed_years : failed_years[j][2] # failed_years[k][2]

(* C3: a run in which at least one year fetched and at least one failed     *)
(* never raises, and when it has ended it has printed the aggregates and    *)
(* the correlations and listed exactly the failed years with their          *)
(* messages.                                                                *)
Cex_C3 ==
    (LoopFinished /\ all_dfs # <<>> /\ failed_years # <<>>) =>
        /\ error = "none"
        /\ pc # "raised"
        /\ pc = "done" =>
              /\ Len(Events("state_trend")) = 1
              /\ Len(Events("corr_by_year")) = 1
              /\ Len(Events("overall_corr")) = 1
              /\ [k \in DOMAIN Events("failed_year") |->
                     <<Events("failed_year")[k].year, Events("failed_year")[k].data>>]
                 = failed_years

(* C4: whenever the concatenation, the per-year aggregate, a correlation or *)
(* a chart runs or has run, CombinedTable is not empty.                     *)
Cex_C4 ==
    /\ pc = "concat" => Concat(all_dfs) # <<>>
    /\ pc \in {"state_trend", "corr_by_year", "overall_corr", "chart_income",
               "chart_gini", "failed_report", "done"} => final_df # <<>>
    /\ (\E j \in DOMAIN output : output[j].kind \in AggregateKinds) => final_df # <<>>

(* C5: for every response the Fetcher accepts, the returned record set is   *)
(* exactly the rows whose income cell and Gini cell are both numeric        *)
(* strings, in the order of the response, each with the two numbers and the *)
(* year; so no returned row has a null income or a null Gini.               *)
IsNumeric(cell) == cell \in { NumStr[n] : n \in DOMAIN NumStr }

NumberOf(cell) == CHOOSE n \in DOMAIN NumStr : NumStr[n] = cell

Thm_C5 ==
    (pc = "returned" /\ ret.ok) =>
        LET kept == SelectSeq(arg_resp.rows,
                       LAMBDA r : IsNumeric(r.B19013_001E) /\ IsNumeric(r.B19083_001E))
        IN  /\ \A j \in DOMAIN ret.df : ret.df[j].income # NaN /\ ret.df[j].gini # NaN
            /\ Len(ret.df) = Len(kept)
            /\ \A j \in DOMAIN ret.df :
                  /\ ret.df[j].NAME = kept[j].NAME
                  /\ ret.df[j].year = arg_year
                  /\ ret.df[j].income = {NumberOf(kept[j].B19013_001E)}
                  /\ ret.df[j].gini = {NumberOf(kept[j].B19083_001E)}

Wit_C5 ==
    /\ pc = "returned"
    /\ ret.ok
    /\ Len(arg_resp.rows) = 2
    /\ Len(ret.df) = 1
    /\ arg_resp.rows[1].B19013_001E = "2"
    /\ arg_resp.rows[1].B19083_001E = None

(* C6: for every year of YearlyAggregate, n_counties is exactly the number  *)
(* of CombinedTable rows tagged with that year.                             *)
Thm_C6 ==
    \A k \in DOMAIN state_trend :
        state_trend[k].n_counties = Cardinality(RowsOf(final_df, state_trend[k].year))

Wit_C6 ==
    /\ pc = "done"
    /\ \E k \in DOMAIN state_trend : state_trend[k].n_counties = 1
    /\ \E k \in DOMAIN state_trend : state_trend[k].n_counties = MaxRows

(* C7: when a year of CombinedTable has fewer than 2 rows, the per-year     *)
(* correlation of that year is not-a-number, the run does not raise, and it *)
(* goes on to the overall correlation, the charts and the failure listing.  *)
HasSmallYear == \E y \in YearSet : Cardinality(RowsOf(final_df, y)) = 1

Thm_C8 ==
    /\ Len(calls) <= Len(YEARS)
    /\ calls = SubSeq(YEARS, 1, Len(calls))
    /\ Len(calls) = Len(all_dfs) + Len(failed_years)
    /\ LoopFinished => calls = YEARS
    /\ \A a, b \in DOMAIN final_df : a < b => final_df[a].year <= final_df[b].year
    /\ LET oks == Events("ok")
       IN  \A a, b \in DOMAIN final_df :
              (a < b /\ final_df[a].year # final_df[b].year) =>
                  \E j, k \in DOMAIN oks :
                      /\ j < k
                      /\ oks[j].year = final_df[a].year
                      /\ oks[k].year = final_df[b].year

Wit_C8 ==
    /\ pc = "done"
    /\ calls = YEARS
    /\ failed_years # <<>>
    /\ Cardinality({ final_df[j].year : j \in DOMAIN final_df }) >= 3

(* The listing, where it is printed, is the end of the output: a header and *)
(* one line per failed year with its message, in the order of the failures, *)
(* after the aggregate table, both correlation outputs and both charts.     *)
ListingShape ==
    Listing # {} =>
        LET first == CHOOSE j \in Listing : \A k \in Listing : j <= k
        IN  /\ Listing = first..Len(output)
            /\ output[first].kind = "failed_header"
            /\ \A j \in Listing : j > first => output[j].kind = "failed_year"
            /\ \A kind \in AggregateKinds :
                  \E j \in 1..(first - 1) : output[j].kind = kind
            /\ [k \in 1..(Len(output) - first) |->
                   <<output[first + k].year, output[first + k].data>>] = failed_years
            /\ [k \in DOMAIN Events("fail") |->
                   <<Events("fail")[k].year, Events("fail")[k].data>>] = failed_years
            /\ \A y \in YearSet : Len(EventsOf("failed_year", y)) <= 1

KeysOk(table) ==
    /\ { table[k].year : k \in DOMAIN table } = { final_df[j].year : j \in DOMAIN final_df }
    /\ \A a, b \in DOMAIN table : a < b => table[a].year < table[b].year

Thm_C10 ==
    /\ pc \in {"corr_by_year", "overall_corr", "chart_income", "chart_gini",
               "failed_report", "done"} => KeysOk(state_trend)
    /\ pc \in {"overall_corr", "chart_income", "chart_gini", "failed_report", "done"} =>
          KeysOk(corr_by_year)
    /\ \A j \in DOMAIN output :
          (output[j].kind = "ok" /\ output[j].data = 0) =>
              /\ \A k \in DOMAIN state_trend : state_trend[k].year # output[j].year
              /\ \A k \in DOMAIN corr_by_year : corr_by_year[k].year # output[j].year
              /\ FailuresOf(output[j].year) = <<>>

Wit_C10 ==
    /\ pc = "done"
    /\ Len(state_trend) >= 2
    /\ Len(corr_by_year) = Len(state_trend)
    /\ \E j \in DOMAIN output : output[j].kind = "ok" /\ output[j].data = 0

====
